---------------------------- MODULE Spec2Model ----------------------------
(***************************************************************************)
(* Slack2Doc-Scribe: the pending-update queue of slack2doc.google_client,  *)
(* the worksheet mutations its SheetUpdate classes perform, the header     *)
(* normalisation of _ensure_sheet_formatting and the user display-name     *)
(* cache of slack2doc.slack_utils with its cache file, the builders of     *)
(* slack2doc.message_utils and the webhook handler message_posted; the     *)
(* timestamp-keyed helpers of slack2doc.gspread_utils.                     *)
(*                                                                         *)
(* Specifications: SpecSheet (calls on one worksheet), Spec (register and  *)
(* teardown), SpecCache (lookups, cache file, restart), SpecWebhook        *)
(* (events), SpecLookups and SpecRace (concurrent requests, in steps),     *)
(* SpecRequest (handler, then teardown) and SpecTimestampKeyed             *)
(* (gspread_utils, on a worksheet of six columns).                         *)
(*                                                                         *)
(* A worksheet is the list of its grid rows, each row a tuple of NumCols   *)
(* cell strings ("" is an empty cell).  The gspread calls the code makes   *)
(* (row_values, insert_row, delete_row, find, update_cell, row_count) are  *)
(* modelled as list operations on that grid.                               *)
(***************************************************************************)
EXTENDS Integers, Sequences, FiniteSets, TLC

VARIABLES
    pending_sheet_updates,  \* google_client._pending_sheet_updates (dict, in key insertion order)
    drive,                  \* the remote spreadsheets: name -> [exists, has_worksheet, rows]
    SLACK_USER_CACHE,       \* slack_utils._SLACK_USER_CACHE: user id -> SlackUser
    now,                    \* datetime.now(), in days
    cache_file,             \* the content of settings.SLACK_USER_CACHE_FILE
    threads,                \* the requests in progress: thread -> its locals
    last                    \* what the last call did (observation only)

vars == <<pending_sheet_updates, drive, SLACK_USER_CACHE, now, cache_file,
          threads, last>>

---------------------------------------------------------------------------
(* Bounds of the model *)

\* number of spreadsheet names register_update is called with
NumSheets == 11
\* rows of a worksheet in an initial state of the worksheet-level specification
MaxInitRows == 3
\* a New update is applied only to a worksheet with fewer rows than this
MaxRows == 4
\* updates queued for one spreadsheet
MaxQueue == 2
\* days the clock advances
MaxNow == 8

---------------------------------------------------------------------------
(* Program constants *)

MAX_PENDING_SHEET_WRITES == 10

\* timedelta(days=7)
CACHE_TIME_TO_LIVE == 7

\* list(ColumnHeaders.__members__.keys())
ColumnHeaderNames ==
    <<"MessageId", "Username", "Message", "MessageTimestamp", "LastEdited">>

\* the Enum: member name -> value
ColumnHeaders ==
    [name \in {ColumnHeaderNames[i] : i \in 1..Len(ColumnHeaderNames)} |->
        CHOOSE i \in 1..Len(ColumnHeaderNames) : ColumnHeaderNames[i] = name]

\* len(ColumnHeaders)
NumCols == Len(ColumnHeaderNames)

SheetNames == 1..NumSheets

Users == {"U1", "U2"}

\* the real_name the Slack Web API reports for a user id
RealName(user_id) == IF user_id = "U1" THEN "Alice" ELSE "Bob"

\* datetime.fromtimestamp(float(ts), tz=DISPLAY_TIMEZONE).isoformat()
IsoFormat(ts) ==
    CASE ts = "1610000000.000100" -> "2021-01-07T01:13:20.000100-05:00"
      [] ts = "1610000100.0"      -> "2021-01-07T01:15:00-05:00"
      [] OTHER                    -> "1970-01-01T00:00:00-05:00"

---------------------------------------------------------------------------
(* The worksheet grid and the gspread operations the code uses *)

EmptyRow == [c \in 1..NumCols |-> ""]

\* a list of cell values laid out from column A of a fresh row
PadRow(values) ==
    [c \in 1..NumCols |-> IF c <= Len(values) THEN values[c] ELSE ""]

RECURSIVE TrimRight(_)
TrimRight(values) ==
    IF values = <<>> \/ values[Len(values)] # ""
    THEN values
    ELSE TrimRight(SubSeq(values, 1, Len(values) - 1))

\* worksheet.row_values(row): the row's values without its trailing empty cells
RowValues(rows, row) ==
    IF row \in 1..Len(rows) THEN TrimRight(rows[row]) ELSE <<>>

\* worksheet.row_count
RowCount(rows) == Len(rows)

\* worksheet.insert_row(values, index)
InsertRow(rows, values, index) ==
    IF index <= Len(rows) + 1
    THEN SubSeq(rows, 1, index - 1) \o <<PadRow(values)>>
            \o SubSeq(rows, index, Len(rows))
    ELSE rows \o [i \in 1..(index - 1 - Len(rows)) |-> EmptyRow]
            \o <<PadRow(values)>>

\* worksheet.delete_row(index)
DeleteRow(rows, index) ==
    IF index \in 1..Len(rows)
    THEN SubSeq(rows, 1, index - 1) \o SubSeq(rows, index + 1, Len(rows))
    ELSE rows

\* worksheet.update_cell(row, col, value)
UpdateCell(rows, row, col, value) ==
    IF row \in 1..Len(rows) /\ col \in 1..NumCols
    THEN [rows EXCEPT ![row][col] = value]
    ELSE rows

\* the cells holding query, as <<row, col>>
MatchingCells(rows, query) ==
    {rc \in (1..Len(rows)) \X (1..NumCols) : rows[rc[1]][rc[2]] = query}

\* worksheet.find(query): the first matching cell in row-major order;
\* found = FALSE stands for gspread.CellNotFound
Find(rows, query) ==
    LET cells == MatchingCells(rows, query) IN
    IF cells = {}
    THEN [found |-> FALSE, row |-> 0, col |-> 0]
    ELSE LET first == CHOOSE rc \in cells :
                        \A other \in cells :
                            \/ rc[1] < other[1]
                            \/ rc[1] = other[1] /\ rc[2] <= other[2]
         IN [found |-> TRUE, row |-> first[1], col |-> first[2]]

---------------------------------------------------------------------------
(* slack_utils: the user display-name cache *)

\* what the Slack Web API answers to users_info
ApiAnswers == {"ok", "ratelimited", "failed"}

\* SlackUser(**user, last_refreshed=...)
SlackUser(id, real_name, last_refreshed) ==
    [id |-> id, real_name |-> real_name, last_refreshed |-> last_refreshed]

\* SlackUser.entry_expired with >= for >
entry_expired_at_ttl(user, t) == (t - user.last_refreshed) >= CACHE_TIME_TO_LIVE

\* SlackUser.entry_expired
entry_expired(user, t) == (t - user.last_refreshed) > CACHE_TIME_TO_LIVE

\* SlackUser.display_name
display_name(user) == user.real_name

\* _api_fetch_user_info(user_id); api[user_id] is the API's answer
api_fetch_user_info(user_id, t, api) ==
    IF api[user_id] = "ok"
    THEN [raised |-> "none", user |-> SlackUser(user_id, RealName(user_id), t)]
    ELSE IF api[user_id] = "ratelimited"
    THEN [raised |-> "RuntimeError", user |-> SlackUser(user_id, "", t)]
    ELSE [raised |-> "RuntimeError", user |-> SlackUser(user_id, "", t)]

\* _SLACK_USER_CACHE[user_id] = user
CachePut(cache, user_id, user) ==
    [k \in DOMAIN cache \cup {user_id} |->
        IF k = user_id THEN user ELSE cache[k]]

\* the value None, which is no dict
None == [None |-> TRUE]

\* get_user_display storing what a failed fetch came back with
get_user_display_storing_failure(user_id, cache, t, api) ==
    IF cache = None
    THEN [raised |-> "AttributeError", name |-> "", cache |-> cache,
          fetches |-> 0]
    ELSE IF user_id \in DOMAIN cache /\ ~entry_expired(cache[user_id], t)
    THEN [raised |-> "none", name |-> display_name(cache[user_id]),
          cache |-> cache, fetches |-> 0]
    ELSE LET fetched == api_fetch_user_info(user_id, t, api) IN
         IF fetched.raised # "none"
         THEN [raised |-> fetched.raised, name |-> "",
               cache |-> CachePut(cache, user_id, fetched.user), fetches |-> 1]
         ELSE [raised |-> "none", name |-> display_name(fetched.user),
               cache |-> CachePut(cache, user_id, fetched.user), fetches |-> 1]

\* get_user_display(user_id): the name, the cache afterwards, what was raised
\* and the number of remote fetches made.  Only a cache that is None would
\* be sent update(_load_user_cache()), which None does not have.
get_user_display(user_id, cache, t, api) ==
    IF cache = None
    THEN [raised |-> "AttributeError", name |-> "", cache |-> cache,
          fetches |-> 0]
    ELSE IF user_id \in DOMAIN cache /\ ~entry_expired(cache[user_id], t)
    THEN [raised |-> "none", name |-> display_name(cache[user_id]),
          cache |-> cache, fetches |-> 0]
    ELSE LET fetched == api_fetch_user_info(user_id, t, api) IN
         IF fetched.raised # "none"
         THEN [raised |-> fetched.raised, name |-> "",
               cache |-> cache, fetches |-> 1]
         ELSE [raised |-> "none", name |-> display_name(fetched.user),
               cache |-> CachePut(cache, user_id, fetched.user), fetches |-> 1]

\* datetime.timestamp(): seconds since the epoch (a datetime is a day here)
datetime_timestamp(datetime) == datetime * 86400

\* datetime.fromtimestamp(seconds)
datetime_fromtimestamp(seconds) == seconds \div 86400

\* SlackUser.serialize leaving last_refreshed the number of days it is here
serialize_days(user) ==
    [id |-> user.id, real_name |-> user.real_name,
     last_refreshed |-> user.last_refreshed]

\* SlackUser.serialize
serialize(user) ==
    [id |-> user.id, real_name |-> user.real_name,
     last_refreshed |-> datetime_timestamp(user.last_refreshed)]

\* SlackUser(**v) for a dictionary read from the cache file: last_refreshed
\* is no datetime and goes through datetime.fromtimestamp
SlackUser_from_dict(v) ==
    SlackUser(v.id, v.real_name, datetime_fromtimestamp(v.last_refreshed))

\* _load_user_cache(), file being the cache file
load_user_cache(file) ==
    IF file.exists
    THEN [k \in DOMAIN file.users |-> SlackUser_from_dict(file.users[k])]
    ELSE [k \in {} |-> SlackUser("", "", 0)]

\* _store_user_cache(user_cache): the cache file afterwards
store_user_cache(user_cache) ==
    [exists |-> TRUE,
     users |-> [k \in DOMAIN user_cache |-> serialize(user_cache[k])]]

---------------------------------------------------------------------------
(* google_client: the SheetUpdate classes *)

SheetUpdateNew(message_id, message, timestamp, user_id) ==
    [kind |-> "New", message_id |-> message_id, message |-> message,
     timestamp |-> timestamp, user_id |-> user_id]

SheetUpdateEdit(message_id, message, timestamp, edit_timestamp) ==
    [kind |-> "Edit", message_id |-> message_id, message |-> message,
     timestamp |-> timestamp, edit_timestamp |-> edit_timestamp]

SheetUpdateDelete(message_id, message, timestamp) ==
    [kind |-> "Delete", message_id |-> message_id, message |-> message,
     timestamp |-> timestamp]

SheetUpdateReply(message_id, message, timestamp) ==
    [kind |-> "Reply", message_id |-> message_id, message |-> message,
     timestamp |-> timestamp]

\* SheetUpdateNew.apply_to_sheet inserting above the header (index 1, not 2)
SheetUpdateNew_apply_at_top(update, rows, cache, t, api) ==
    LET looked == get_user_display(update.user_id, cache, t, api) IN
    IF looked.raised # "none"
    THEN [rows |-> rows, cache |-> looked.cache,
          raised |-> looked.raised, logged |-> "error"]
    ELSE LET row_data == <<update.message_id, looked.name, update.message,
                           IsoFormat(update.timestamp)>>
         IN [rows |-> InsertRow(rows, row_data, 1), cache |-> looked.cache,
             raised |-> "none", logged |-> "info"]

\* SheetUpdateNew.apply_to_sheet
SheetUpdateNew_apply_to_sheet(update, rows, cache, t, api) ==
    LET looked == get_user_display(update.user_id, cache, t, api) IN
    IF looked.raised # "none"
    THEN [rows |-> rows, cache |-> looked.cache,
          raised |-> looked.raised, logged |-> "error"]
    ELSE LET row_data == <<update.message_id, looked.name, update.message,
                           IsoFormat(update.timestamp)>>
         IN [rows |-> InsertRow(rows, row_data, 2), cache |-> looked.cache,
             raised |-> "none", logged |-> "info"]

\* SheetUpdateEdit.apply_to_sheet
SheetUpdateEdit_apply_to_sheet(update, rows, cache, t, api) ==
    LET cell == Find(rows, update.message_id) IN
    IF ~cell.found
    THEN [rows |-> rows, cache |-> cache, raised |-> "none", logged |-> "error"]
    ELSE IF "MessageID" \notin DOMAIN ColumnHeaders
    THEN [rows |-> rows, cache |-> cache, raised |-> "KeyError", logged |-> "none"]
    ELSE IF cell.col # ColumnHeaders["MessageID"]
    THEN [rows |-> rows, cache |-> cache, raised |-> "none", logged |-> "error"]
    ELSE LET message_cell_col == ColumnHeaders["Message"]
             edited_timestamp_cell_col == ColumnHeaders["LastEdited"]
             edited == UpdateCell(rows, cell.row, message_cell_col, update.message)
         IN [rows |-> UpdateCell(edited, cell.row, edited_timestamp_cell_col,
                                 IsoFormat(update.edit_timestamp)),
             cache |-> cache, raised |-> "none", logged |-> "info"]

\* SheetUpdateDelete.apply_to_sheet
SheetUpdateDelete_apply_to_sheet(update, rows, cache, t, api) ==
    LET cell == Find(rows, update.message_id) IN
    IF ~cell.found
    THEN [rows |-> rows, cache |-> cache, raised |-> "none", logged |-> "error"]
    ELSE IF "MessageID" \notin DOMAIN ColumnHeaders
    THEN [rows |-> rows, cache |-> cache, raised |-> "KeyError", logged |-> "none"]
    ELSE IF cell.col # ColumnHeaders["MessageID"]
    THEN [rows |-> rows, cache |-> cache, raised |-> "none", logged |-> "error"]
    ELSE [rows |-> DeleteRow(rows, cell.row), cache |-> cache,
          raised |-> "none", logged |-> "info"]

\* SheetUpdateReply.apply_to_sheet
SheetUpdateReply_apply_to_sheet(update, rows, cache, t, api) ==
    [rows |-> rows, cache |-> cache, raised |-> "none", logged |-> "warning"]

\* update.apply_to_sheet(worksheet), dispatched on the update's class
apply_to_sheet(update, rows, cache, t, api) ==
    CASE update.kind = "New" ->
            SheetUpdateNew_apply_to_sheet(update, rows, cache, t, api)
      [] update.kind = "Edit" ->
            SheetUpdateEdit_apply_to_sheet(update, rows, cache, t, api)
      [] update.kind = "Delete" ->
            SheetUpdateDelete_apply_to_sheet(update, rows, cache, t, api)
      [] OTHER ->
            SheetUpdateReply_apply_to_sheet(update, rows, cache, t, api)

\* _ensure_sheet_formatting(worksheet): the worksheet's rows afterwards
ensure_sheet_formatting(rows) ==
    LET worksheet_headers == RowValues(rows, 1)
        expected_headers == ColumnHeaderNames
    IN IF worksheet_headers # expected_headers
       THEN DeleteRow(rows, 1)
       ELSE LET fixed == IF RowCount(rows) \in {0, 1}
                         THEN DeleteRow(
                                InsertRow(InsertRow(rows, <<>>, 1),
                                          expected_headers, 1), 3)
                         ELSE rows
            IN DeleteRow(fixed, 1)

---------------------------------------------------------------------------
(* google_client: the pending-update queue and its flush *)

\* the keys of _pending_sheet_updates
PendingNames(pending) == {pending[i].sheet_name : i \in 1..Len(pending)}

\* register_update(sheet_name, update): _pending_sheet_updates is a
\* defaultdict(list); a name not yet a key becomes the last key
register_update(pending, sheet_name, update) ==
    IF sheet_name \in PendingNames(pending)
    THEN [i \in 1..Len(pending) |->
            IF pending[i].sheet_name = sheet_name
            THEN [pending[i] EXCEPT !.updates = Append(@, update)]
            ELSE pending[i]]
    ELSE Append(pending, [sheet_name |-> sheet_name, updates |-> <<update>>])

\* the loop's state after its i-th call of apply_to_sheet; attempted counts
\* the calls made, applied lists the updates they were made on
Attempted(i, applied, done) ==
    [rows |-> done.rows, cache |-> done.cache, raised |-> done.raised,
     attempted |-> i, applied |-> applied]

\* one pass of "for update in updates: update.apply_to_sheet(worksheet)":
\* before is the loop's state, i the update's position; an exception that
\* was raised has ended the loop
ApplyNext(before, update, i, t, api) ==
    IF before.raised # "none"
    THEN before
    ELSE Attempted(i, Append(before.applied, update),
                   apply_to_sheet(update, before.rows, before.cache, t, api))

\* the loop taking the updates last to first
ApplyUpdates_reversed(updates, rows, cache, t, api) ==
    LET run[i \in 0..Len(updates)] ==
            IF i = 0
            THEN [rows |-> rows, cache |-> cache, raised |-> "none",
                  attempted |-> 0, applied |-> <<>>]
            ELSE ApplyNext(run[i - 1], updates[Len(updates) + 1 - i], i,
                           t, api)
    IN run[Len(updates)]

\* for update in updates: update.apply_to_sheet(worksheet)
ApplyUpdates(updates, rows, cache, t, api) ==
    LET run[i \in 0..Len(updates)] ==
            IF i = 0
            THEN [rows |-> rows, cache |-> cache, raised |-> "none",
                  attempted |-> 0, applied |-> <<>>]
            ELSE ApplyNext(run[i - 1], updates[i], i, t, api)
    IN run[Len(updates)]

\* what the flush did for one spreadsheet
SheetOutcome(sheet_name, queued, attempted, applied, raised) ==
    [sheet_name |-> sheet_name, queued |-> queued,
     attempted |-> attempted, applied |-> applied, raised |-> raised]

\* the worksheet as the updates of one spreadsheet left it
SheetWritten(entry, remote, cache, done) ==
    [drive |-> [remote EXCEPT ![entry.sheet_name] =
                    [exists |-> TRUE, has_worksheet |-> TRUE,
                     rows |-> done.rows]],
     cache |-> done.cache,
     raised |-> done.raised,
     outcome |-> SheetOutcome(entry.sheet_name, Len(entry.updates),
                              done.attempted, done.applied, done.raised)]

\* spreadsheet.worksheet(MESSAGE_WORKSHEET_NAME), or on WorksheetNotFound
\* spreadsheet.add_worksheet(MESSAGE_WORKSHEET_NAME, rows=1, cols=...)
OpenWorksheet(spreadsheet) ==
    IF spreadsheet.has_worksheet THEN spreadsheet.rows ELSE <<EmptyRow>>

\* the body of the loop of _write_pending_updates for one item
WriteSheet(entry, remote, cache, t, api) ==
    IF ~remote[entry.sheet_name].exists
    THEN [drive |-> remote, cache |-> cache,
          raised |-> "SpreadsheetNotFound",
          outcome |-> SheetOutcome(entry.sheet_name, Len(entry.updates), 0,
                                   <<>>, "SpreadsheetNotFound")]
    ELSE SheetWritten(entry, remote, cache,
            ApplyUpdates(entry.updates,
                         ensure_sheet_formatting(
                            OpenWorksheet(remote[entry.sheet_name])),
                         cache, t, api))

\* the loop's state after one more item
WithOutcome(outcomes, done) ==
    [drive |-> done.drive, cache |-> done.cache, raised |-> done.raised,
     outcomes |-> Append(outcomes, done.outcome)]

\* one pass of the loop of _write_pending_updates; an exception that was
\* raised has ended the loop
WriteNext(before, entry, t, api) ==
    IF before.raised # "none"
    THEN before
    ELSE WithOutcome(before.outcomes,
                     WriteSheet(entry, before.drive, before.cache, t, api))

\* the loop of _write_pending_updates over _pending_sheet_updates.items()
WriteSheets(entries, remote, cache, t, api) ==
    LET run[i \in 0..Len(entries)] ==
            IF i = 0
            THEN [drive |-> remote, cache |-> cache, raised |-> "none",
                  outcomes |-> <<>>]
            ELSE WriteNext(run[i - 1], entries[i], t, api)
    IN run[Len(entries)]

\* _pending_sheet_updates.clear(), which an exception raised in the loop
\* does not reach
ClearPending(pending, written) ==
    [pending |-> IF written.raised = "none" THEN <<>> ELSE pending,
     drive |-> written.drive, cache |-> written.cache,
     raised |-> written.raised, outcomes |-> written.outcomes]

\* _write_pending_updates(client)
write_pending_updates(pending, remote, cache, t, api) ==
    ClearPending(pending, WriteSheets(pending, remote, cache, t, api))

---------------------------------------------------------------------------
(* message_utils: from a Slack event to a queued update; the webhook handler *)

\* settings.SLACK_WATCHED_CHANNELS
SLACK_WATCHED_CHANNELS == {"C1"}

\* d[keys[1]][keys[2]]... can be read: no KeyError
HasPath(d, keys) ==
    LET at[i \in 0..Len(keys)] ==
            IF i = 0 THEN [ok |-> TRUE, value |-> d]
            ELSE IF at[i - 1].ok /\ keys[i] \in DOMAIN at[i - 1].value
            THEN [ok |-> TRUE, value |-> at[i - 1].value[keys[i]]]
            ELSE [ok |-> FALSE, value |-> d]
    IN at[Len(keys)].ok

\* dict.get(key); "None" stands for None among the strings
dict_get(d, key) == IF key \in DOMAIN d THEN d[key] ELSE "None"

\* a builder's result: the update, or the KeyError of a missing field
Built(update) == [raised |-> "none", update |-> update]
BuilderKeyError == [raised |-> "KeyError", update |-> [kind |-> "None"]]

\* _build_update_edit(slack_event)
build_update_edit(slack_event) ==
    IF /\ HasPath(slack_event, <<"message", "client_msg_id">>)
       /\ HasPath(slack_event, <<"message", "text">>)
       /\ HasPath(slack_event, <<"message", "ts">>)
       /\ HasPath(slack_event, <<"message", "edited", "ts">>)
    THEN Built(SheetUpdateEdit(slack_event["message"]["client_msg_id"],
                               slack_event["message"]["text"],
                               slack_event["message"]["ts"],
                               slack_event["message"]["edited"]["ts"]))
    ELSE BuilderKeyError

\* _build_update_delete(slack_event)
build_update_delete(slack_event) ==
    IF /\ HasPath(slack_event, <<"message", "client_msg_id">>)
       /\ HasPath(slack_event, <<"message", "text">>)
       /\ HasPath(slack_event, <<"message", "ts">>)
    THEN Built(SheetUpdateDelete(slack_event["message"]["client_msg_id"],
                                 slack_event["message"]["text"],
                                 slack_event["message"]["ts"]))
    ELSE BuilderKeyError

\* _build_update_reply(slack_event)
build_update_reply(slack_event) ==
    IF /\ HasPath(slack_event, <<"message", "client_msg_id">>)
       /\ HasPath(slack_event, <<"message", "text">>)
       /\ HasPath(slack_event, <<"message", "ts">>)
    THEN Built(SheetUpdateReply(slack_event["message"]["client_msg_id"],
                                slack_event["message"]["text"],
                                slack_event["message"]["ts"]))
    ELSE BuilderKeyError

\* _build_update_new(slack_event)
build_update_new(slack_event) ==
    IF /\ HasPath(slack_event, <<"client_msg_id">>)
       /\ HasPath(slack_event, <<"text">>)
       /\ HasPath(slack_event, <<"ts">>)
       /\ HasPath(slack_event, <<"user">>)
    THEN Built(SheetUpdateNew(slack_event["client_msg_id"],
                              slack_event["text"], slack_event["ts"],
                              slack_event["user"]))
    ELSE BuilderKeyError

\* the keys of update_builder_lookup
BuilderSubtypes ==
    {"message_changed", "message_deleted", "message_replied", "None"}

\* update_builder_lookup[subtype](slack_event)
update_builder_lookup(subtype, slack_event) ==
    CASE subtype = "message_changed" -> build_update_edit(slack_event)
      [] subtype = "message_deleted" -> build_update_delete(slack_event)
      [] subtype = "message_replied" -> build_update_reply(slack_event)
      [] OTHER                       -> build_update_new(slack_event)

\* the state register_message_for_update leaves: the queue, what it raised,
\* whether a builder was called
Registered(pending, raised, builder_called) ==
    [pending |-> pending, raised |-> raised, builder_called |-> builder_called]

\* the end of register_message_for_update: the built update is registered
\* under settings.GOOGLE_SPREADSHEET_NAME
RegisterBuilt(pending, spreadsheet_name, built) ==
    IF built.raised # "none"
    THEN Registered(pending, built.raised, TRUE)
    ELSE Registered(register_update(pending, spreadsheet_name, built.update),
                    "none", TRUE)

\* register_message_for_update(slack_event_data)
register_message_for_update(slack_event_data, pending, spreadsheet_name) ==
    IF "type" \notin DOMAIN slack_event_data
    THEN Registered(pending, "KeyError", FALSE)
    ELSE IF slack_event_data["type"] # "message"
    THEN Registered(pending, "TypeError", FALSE)
    ELSE IF dict_get(slack_event_data, "subtype") \notin BuilderSubtypes
    THEN Registered(pending, "KeyError", FALSE)
    ELSE RegisterBuilt(pending, spreadsheet_name,
            update_builder_lookup(dict_get(slack_event_data, "subtype"),
                                  slack_event_data))

\* message_posted without its try/except: the exception leaves the handler
Posted_uncaught(registered) ==
    [pending |-> registered.pending, raised |-> registered.raised,
     logged |-> "debug", caught |-> "none",
     builder_called |-> registered.builder_called,
     returned |-> IF registered.raised # "none" THEN "None" ELSE "Response"]

\* what message_posted leaves when register_message_for_update has returned
\* or raised: an exception is logged, and the Response is returned
Posted(registered) ==
    [pending |-> registered.pending, raised |-> "none",
     logged |-> IF registered.raised # "none" THEN "exception" ELSE "debug",
     caught |-> registered.raised,
     builder_called |-> registered.builder_called,
     returned |-> "Response"]

\* message_posted without the test of the event's channel
message_posted_any_channel(event, pending, spreadsheet_name) ==
    Posted(register_message_for_update(event, pending, spreadsheet_name))

\* create_app.message_posted(event_data), event being event_data["event"]
message_posted(event, pending, spreadsheet_name) ==
    IF event["channel"] \notin SLACK_WATCHED_CHANNELS
    THEN [pending |-> pending, raised |-> "none", logged |-> "debug",
          caught |-> "none", builder_called |-> FALSE, returned |-> "None"]
    ELSE Posted(register_message_for_update(event, pending, spreadsheet_name))

---------------------------------------------------------------------------
(* Inputs *)

T1 == "1610000000.000100"
T2 == "1610000100.0"

HeaderRow == PadRow(ColumnHeaderNames)

\* the row a New update leaves in the worksheet
MessageRow(message_id, user_name, message, timestamp) ==
    PadRow(<<message_id, user_name, message, IsoFormat(timestamp)>>)

\* the updates handed to apply_to_sheet and register_update
SheetUpdates ==
    { SheetUpdateNew("m1", "hi", T1, "U1"),
      SheetUpdateNew("m2", "yo", T1, "U2"),
      SheetUpdateEdit("m1", "hi there", T1, T2),
      SheetUpdateDelete("m1", "hi", T1),
      SheetUpdateReply("m1", "re", T1) }

\* rows a worksheet holds before the program touches it
InitRows ==
    { HeaderRow, EmptyRow,
      MessageRow("m1", "Alice", "hi", T1),
      MessageRow("m2", "Bob", "yo", T1),
      MessageRow("m2", "Bob", "m1", T1) }

InitWorksheets == UNION {[1..n -> InitRows] : n \in 0..MaxInitRows}

NoUpdate == [kind |-> "None"]

EmptyCache == [k \in {} |-> SlackUser("", "", 0)]

\* settings.SLACK_USER_CACHE_FILE does not exist
NoFile == [exists |-> FALSE, users |-> EmptyCache]

\* no request is in progress
NoThreads == [t \in {} |-> [pc |-> "done"]]

\* settings.GOOGLE_SPREADSHEET_NAME: the configured spreadsheet is the first
\* of the names
GOOGLE_SPREADSHEET_NAME == 1

Spreadsheet(rows) == [exists |-> TRUE, has_worksheet |-> TRUE, rows |-> rows]

\* answer: what the Slack Web API was set to answer for the update's user
Observed(op, sheet, update, answer, raised, logged) ==
    [op |-> op, sheet |-> sheet, update |-> update, answer |-> answer,
     raised |-> raised, logged |-> logged, flushed |-> FALSE,
     outcomes |-> <<>>]

---------------------------------------------------------------------------
(* Worksheet-level specification: _ensure_sheet_formatting and             *)
(* apply_to_sheet called on one worksheet of any initial content           *)

InitSheet ==
    /\ pending_sheet_updates = <<>>
    /\ \E w \in InitWorksheets :
          drive = [s \in SheetNames |->
                      IF s = GOOGLE_SPREADSHEET_NAME THEN Spreadsheet(w)
                      ELSE Spreadsheet(<<HeaderRow>>)]
    /\ SLACK_USER_CACHE = EmptyCache
    /\ now = 0
    /\ cache_file = NoFile
    /\ threads = NoThreads
    /\ last = Observed("init", 0, NoUpdate, "none", "none", "none")

CallEnsureSheetFormatting(s) ==
    /\ drive[s].exists /\ drive[s].has_worksheet
    /\ drive' = [drive EXCEPT ![s].rows = ensure_sheet_formatting(@)]
    /\ last' = Observed("ensure_sheet_formatting", s, NoUpdate,
                        "none", "none", "none")
    /\ UNCHANGED <<pending_sheet_updates, SLACK_USER_CACHE, now, cache_file,
                   threads>>

CallApplyToSheet(s, update, api) ==
    /\ drive[s].exists /\ drive[s].has_worksheet
    /\ update.kind = "New" => Len(drive[s].rows) < MaxRows
    /\ LET done == apply_to_sheet(update, drive[s].rows,
                                  SLACK_USER_CACHE, now, api)
       IN /\ drive' = [drive EXCEPT ![s].rows = done.rows]
          /\ SLACK_USER_CACHE' = done.cache
          /\ last' = Observed("apply_to_sheet", s, update,
                              IF update.kind = "New"
                              THEN api[update.user_id] ELSE "none",
                              done.raised, done.logged)
    /\ UNCHANGED <<pending_sheet_updates, now, cache_file, threads>>

NextSheet ==
    \/ CallEnsureSheetFormatting(GOOGLE_SPREADSHEET_NAME)
    \/ \E update \in SheetUpdates, api \in [Users -> ApiAnswers] :
          CallApplyToSheet(GOOGLE_SPREADSHEET_NAME, update, api)

SpecSheet == InitSheet /\ [][NextSheet]_vars

---------------------------------------------------------------------------
(* Program-level specification: register_update and the app-context        *)
(* teardown callback of google_client.init_app                             *)

\* spreadsheet names that are sent every kind of update; the other names are
\* sent a Reply update only, and at most one
VariedSheets == {GOOGLE_SPREADSHEET_NAME}

QueuedUpdates ==
    { SheetUpdateNew("m1", "hi", T1, "U1"),
      SheetUpdateEdit("m1", "hi there", T1, T2),
      SheetUpdateDelete("m1", "hi", T1),
      SheetUpdateReply("m1", "re", T1) }

RegisterInputs ==
    {<<s, update>> : s \in VariedSheets, update \in QueuedUpdates}
        \cup {<<s, SheetUpdateReply("m1", "re", T1)>> :
                s \in SheetNames \ VariedSheets}

QueueBound(sheet_name) == IF sheet_name \in VariedSheets THEN MaxQueue ELSE 1

QueueLength(pending, sheet_name) ==
    IF sheet_name \in PendingNames(pending)
    THEN Len(pending[CHOOSE i \in 1..Len(pending) :
                        pending[i].sheet_name = sheet_name].updates)
    ELSE 0

\* spreadsheets that may be missing from the drive
MissingChoices == {0, 2, NumSheets}

Init ==
    /\ pending_sheet_updates = <<>>
    /\ \E missing \in MissingChoices, first \in BOOLEAN :
          drive = [s \in SheetNames |->
                     IF s = GOOGLE_SPREADSHEET_NAME /\ first
                     THEN Spreadsheet(<<HeaderRow,
                                        MessageRow("m1", "Alice", "hi", T1)>>)
                     ELSE [exists |-> s # missing, has_worksheet |-> FALSE,
                           rows |-> <<>>]]
    /\ SLACK_USER_CACHE = EmptyCache
    /\ now = 0
    /\ cache_file = NoFile
    /\ threads = NoThreads
    /\ last = Observed("init", 0, NoUpdate, "none", "none", "none")

\* google_client.register_update(sheet_name, update)
RegisterUpdate(sheet_name, update) ==
    /\ pending_sheet_updates' =
            register_update(pending_sheet_updates, sheet_name, update)
    /\ last' = Observed("register_update", 0, NoUpdate, "none", "none", "none")
    /\ UNCHANGED <<drive, SLACK_USER_CACHE, now, cache_file, threads>>

\* the state after _teardown has called _write_pending_updates
Flushed(written) ==
    /\ pending_sheet_updates' = written.pending
    /\ drive' = written.drive
    /\ SLACK_USER_CACHE' = written.cache
    /\ last' = [Observed("teardown", 0, NoUpdate, "none", written.raised,
                         IF written.raised = "SpreadsheetNotFound"
                         THEN "exception" ELSE "debug")
                  EXCEPT !.flushed = TRUE, !.outcomes = written.outcomes]
    /\ UNCHANGED <<now, cache_file, threads>>

\* google_client.init_app._teardown(_e)
Teardown(api) ==
    IF Len(pending_sheet_updates) > MAX_PENDING_SHEET_WRITES
    THEN Flushed(write_pending_updates(pending_sheet_updates, drive,
                                       SLACK_USER_CACHE, now, api))
    ELSE /\ last' = Observed("teardown", 0, NoUpdate, "none", "none", "debug")
         /\ UNCHANGED <<pending_sheet_updates, drive, SLACK_USER_CACHE, now,
                        cache_file, threads>>

Next ==
    \/ \E input \in RegisterInputs :
          \* names are first used in ascending order, queues are bounded
          /\ input[1] <= Len(pending_sheet_updates) + 1
          /\ QueueLength(pending_sheet_updates, input[1]) < QueueBound(input[1])
          /\ RegisterUpdate(input[1], input[2])
    \/ \E answer \in ApiAnswers :
          \* worksheets are bounded
          /\ \A s \in SheetNames : Len(drive[s].rows) <= MaxRows
          /\ Teardown([user \in Users |-> answer])

Spec == Init /\ [][Next]_vars

---------------------------------------------------------------------------
(* Cache-level specification: get_user_display, the teardown callback of    *)
(* slack_utils.init_app, the passing of time and the start of a new process *)

\* what a call of get_user_display did; had and age describe the entry of
\* user_id before the call
ObservedLookup(user_id, answer, cache, t, looked) ==
    [op |-> "get_user_display", user_id |-> user_id, answer |-> answer,
     had |-> user_id \in DOMAIN cache,
     age |-> IF user_id \in DOMAIN cache
             THEN t - cache[user_id].last_refreshed ELSE 0,
     raised |-> looked.raised, name |-> looked.name,
     fetches |-> looked.fetches]

InitCache ==
    /\ pending_sheet_updates = <<>>
    /\ drive = [s \in SheetNames |-> Spreadsheet(<<HeaderRow>>)]
    /\ SLACK_USER_CACHE = EmptyCache
    /\ now = 0
    /\ cache_file = NoFile
    /\ threads = NoThreads
    /\ last = Observed("init", 0, NoUpdate, "none", "none", "none")

\* datetime.now() moves on by a day
Tick ==
    /\ now < MaxNow
    /\ now' = now + 1
    /\ last' = Observed("tick", 0, NoUpdate, "none", "none", "none")
    /\ UNCHANGED <<pending_sheet_updates, drive, SLACK_USER_CACHE, cache_file,
                   threads>>

\* slack_utils.get_user_display(user_id), the Slack Web API giving answer
CallGetUserDisplay(user_id, answer) ==
    /\ LET looked == get_user_display(user_id, SLACK_USER_CACHE, now,
                                      [user \in Users |-> answer])
       IN /\ SLACK_USER_CACHE' = looked.cache
          /\ last' = ObservedLookup(user_id, answer, SLACK_USER_CACHE, now,
                                    looked)
    /\ UNCHANGED <<pending_sheet_updates, drive, now, cache_file, threads>>

\* slack_utils.init_app._teardown(_e)
SlackTeardown ==
    /\ cache_file' = store_user_cache(SLACK_USER_CACHE)
    /\ last' = Observed("slack_teardown", 0, NoUpdate, "none", "none", "none")
    /\ UNCHANGED <<pending_sheet_updates, drive, SLACK_USER_CACHE, now,
                   threads>>

\* the process ends and a new one imports slack_utils and google_client:
\* the module globals are initialised, the cache file stays
ProcessStart ==
    /\ SLACK_USER_CACHE' = EmptyCache
    /\ pending_sheet_updates' = <<>>
    /\ last' = Observed("process_start", 0, NoUpdate, "none", "none", "none")
    /\ UNCHANGED <<drive, now, cache_file, threads>>

NextCache ==
    \/ Tick
    \/ \E user_id \in Users, answer \in ApiAnswers :
          CallGetUserDisplay(user_id, answer)
    \/ SlackTeardown
    \/ ProcessStart

SpecCache == InitCache /\ [][NextCache]_vars

---------------------------------------------------------------------------
(* Webhook-level specification: message_posted called with Slack events     *)

\* d with the items of other added
With(d, other) ==
    [k \in DOMAIN d \cup DOMAIN other |->
        IF k \in DOMAIN other THEN other[k] ELSE d[k]]

NoFields == [k \in {} |-> ""]

\* the nested message of an event: none, as message_changed carries it, and
\* without its edited object
NestedMessages ==
    { NoFields,
      [message |-> [client_msg_id |-> "m1", text |-> "hi there", ts |-> T1,
                    edited |-> [ts |-> T2]]],
      [message |-> [client_msg_id |-> "m1", text |-> "hi there", ts |-> T1]] }

\* the events handed to message_posted
Events ==
    { With(With(With(With([channel |-> channel, ts |-> T1, text |-> "hi",
                           user |-> "U1"],
                          type), subtype), id), nested) :
        channel \in {"C1", "C9"},
        type \in {[type |-> "message"], [type |-> "app_mention"]},
        subtype \in {NoFields} \cup
                    {[subtype |-> st] :
                        st \in BuilderSubtypes \cup {"channel_join"}},
        id \in {NoFields, [client_msg_id |-> "m2"]},
        nested \in NestedMessages }

ObservedEvent(event, posted) ==
    [op |-> "message_posted", event |-> event, raised |-> posted.raised,
     logged |-> posted.logged, caught |-> posted.caught,
     builder_called |-> posted.builder_called, returned |-> posted.returned]

\* the "message" callback of the SlackEventAdapter
MessagePosted(event) ==
    /\ pending_sheet_updates' =
            message_posted(event, pending_sheet_updates,
                           GOOGLE_SPREADSHEET_NAME).pending
    /\ last' = ObservedEvent(event,
                    message_posted(event, pending_sheet_updates,
                                   GOOGLE_SPREADSHEET_NAME))
    /\ UNCHANGED <<drive, SLACK_USER_CACHE, now, cache_file, threads>>

NextWebhook ==
    \E event \in Events :
        \* the queue is bounded
        /\ QueueLength(pending_sheet_updates, GOOGLE_SPREADSHEET_NAME)
                < MaxQueue
        /\ MessagePosted(event)

SpecWebhook == InitCache /\ [][NextWebhook]_vars

---------------------------------------------------------------------------
(* Concurrent lookups: two requests call get_user_display, each call a       *)
(* sequence of steps: the read of the cache, the remote fetch, the store     *)

LookupThreads == {1, 2}

\* the locals of a call of get_user_display; fetches counts the remote
\* fetches the call has issued
LookupLocals(pc, user_id, fetches, user) ==
    [pc |-> pc, user_id |-> user_id, fetches |-> fetches, user |-> user]

IdleLookup == LookupLocals("idle", "", 0, SlackUser("", "", 0))

InitLookups ==
    /\ pending_sheet_updates = <<>>
    /\ drive = [s \in SheetNames |-> Spreadsheet(<<HeaderRow>>)]
    /\ SLACK_USER_CACHE = EmptyCache
    /\ now = 0
    /\ cache_file = NoFile
    /\ threads = [t \in LookupThreads |-> IdleLookup]
    /\ last = Observed("init", 0, NoUpdate, "none", "none", "none")

\* user = _SLACK_USER_CACHE[user_id]; if user.entry_expired: ... except
\* KeyError: ...  A fresh entry is returned, else the call goes on to fetch
LookupRead(t, user_id) ==
    /\ threads[t].pc = "idle"
    /\ threads' = [threads EXCEPT ![t] =
            IF /\ user_id \in DOMAIN SLACK_USER_CACHE
               /\ ~entry_expired(SLACK_USER_CACHE[user_id], now)
            THEN IdleLookup
            ELSE LookupLocals("fetch", user_id, 0, SlackUser("", "", 0))]
    /\ last' = Observed("lookup_read", t, NoUpdate, "none", "none", "none")
    /\ UNCHANGED <<pending_sheet_updates, drive, SLACK_USER_CACHE, now,
                   cache_file>>

\* user = _api_fetch_user_info(user_id)
LookupFetch(t, answer) ==
    /\ threads[t].pc = "fetch"
    /\ LET fetched == api_fetch_user_info(threads[t].user_id, now,
                                          [user \in Users |-> answer])
       IN /\ threads' = [threads EXCEPT ![t] =
                IF fetched.raised # "none"
                THEN LookupLocals("raised", @.user_id, @.fetches + 1, @.user)
                ELSE LookupLocals("store", @.user_id, @.fetches + 1,
                                  fetched.user)]
          /\ last' = Observed("lookup_fetch", t, NoUpdate, answer,
                              fetched.raised, "none")
    /\ UNCHANGED <<pending_sheet_updates, drive, SLACK_USER_CACHE, now,
                   cache_file>>

\* _SLACK_USER_CACHE[user_id] = user; return user.display_name
LookupStore(t) ==
    /\ threads[t].pc = "store"
    /\ SLACK_USER_CACHE' = CachePut(SLACK_USER_CACHE, threads[t].user_id,
                                    threads[t].user)
    /\ threads' = [threads EXCEPT ![t] = IdleLookup]
    /\ last' = Observed("lookup_store", t, NoUpdate, "none", "none", "none")
    /\ UNCHANGED <<pending_sheet_updates, drive, now, cache_file>>

\* the RuntimeError has left get_user_display
LookupRaised(t) ==
    /\ threads[t].pc = "raised"
    /\ threads' = [threads EXCEPT ![t] = IdleLookup]
    /\ last' = Observed("lookup_raised", t, NoUpdate, "none", "RuntimeError",
                        "error")
    /\ UNCHANGED <<pending_sheet_updates, drive, SLACK_USER_CACHE, now,
                   cache_file>>

\* datetime.now() moves on by a day
LookupTick ==
    /\ now < MaxNow
    /\ now' = now + 1
    /\ last' = Observed("tick", 0, NoUpdate, "none", "none", "none")
    /\ UNCHANGED <<pending_sheet_updates, drive, SLACK_USER_CACHE, cache_file,
                   threads>>

NextLookups ==
    \/ \E t \in LookupThreads, user_id \in Users : LookupRead(t, user_id)
    \/ \E t \in LookupThreads, answer \in ApiAnswers : LookupFetch(t, answer)
    \/ \E t \in LookupThreads : LookupStore(t)
    \/ \E t \in LookupThreads : LookupRaised(t)
    \/ LookupTick

SpecLookups == InitLookups /\ [][NextLookups]_vars

---------------------------------------------------------------------------
(* A flush in steps: one request runs _write_pending_updates, a step for     *)
(* each pass of its two loops and one for the clear(), while other requests  *)
(* call register_update                                                      *)

\* the names of the program-level specification and one more, which a
\* request can use for the first time while the flush is iterating
RaceSheets == 1..(NumSheets + 1)

RaceInputs ==
    RegisterInputs \cup {<<NumSheets + 1, SheetUpdateReply("m1", "re", T1)>>}

\* the locals of _write_pending_updates: used is the size of the dict when
\* the iteration over its items began, pos the items taken, sheet_name the
\* key of the current item, j the updates taken from its list; passed lists
\* the updates apply_to_sheet was called on
FlushLocals(pc, used, pos, sheet_name, j, passed, raised) ==
    [pc |-> pc, used |-> used, pos |-> pos, sheet_name |-> sheet_name,
     j |-> j, passed |-> passed, raised |-> raised]

NothingPassed == [s \in RaceSheets |-> <<>>]

IdleFlush == FlushLocals("idle", 0, 0, 0, 0, NothingPassed, "none")

\* the list that is the value of key sheet_name
PendingList(pending, sheet_name) ==
    IF sheet_name \in PendingNames(pending)
    THEN pending[CHOOSE i \in 1..Len(pending) :
                    pending[i].sheet_name = sheet_name].updates
    ELSE <<>>

InitRace ==
    /\ pending_sheet_updates = <<>>
    /\ drive = [s \in RaceSheets |->
                  [exists |-> TRUE, has_worksheet |-> FALSE, rows |-> <<>>]]
    /\ SLACK_USER_CACHE = EmptyCache
    /\ now = 0
    /\ cache_file = NoFile
    /\ threads = [t \in {"flush"} |-> IdleFlush]
    /\ last = Observed("init", 0, NoUpdate, "none", "none", "none")

\* _teardown(_e) up to the start of the loop of _write_pending_updates
FlushBegin ==
    /\ threads["flush"].pc = "idle"
    /\ threads' = [threads EXCEPT !["flush"] =
            IF Len(pending_sheet_updates) > MAX_PENDING_SHEET_WRITES
            THEN FlushLocals("next_item", Len(pending_sheet_updates), 0, 0, 0,
                             NothingPassed, "none")
            ELSE IdleFlush]
    /\ last' = Observed("teardown", 0, NoUpdate, "none", "none", "debug")
    /\ UNCHANGED <<pending_sheet_updates, drive, SLACK_USER_CACHE, now,
                   cache_file>>

\* the next item of _pending_sheet_updates.items(): RuntimeError when the
\* dict has changed size during the iteration; the end of the loop; or
\* client.open, the worksheet and _ensure_sheet_formatting for its key
FlushNextItem ==
    /\ threads["flush"].pc = "next_item"
    /\ LET locals == threads["flush"]
           size_changed == Len(pending_sheet_updates) # locals.used
           exhausted == locals.pos >= locals.used
           sheet_name == IF size_changed \/ exhausted THEN 0
                         ELSE pending_sheet_updates[locals.pos + 1].sheet_name
       IN IF size_changed
          THEN /\ threads' = [threads EXCEPT !["flush"].pc = "raised",
                                             !["flush"].raised = "RuntimeError"]
               /\ drive' = drive
          ELSE IF exhausted
          THEN /\ threads' = [threads EXCEPT !["flush"].pc = "clear"]
               /\ drive' = drive
          ELSE IF ~drive[sheet_name].exists
          THEN /\ threads' = [threads EXCEPT
                                !["flush"].pc = "raised",
                                !["flush"].raised = "SpreadsheetNotFound"]
               /\ drive' = drive
          ELSE /\ threads' = [threads EXCEPT
                                !["flush"].pc = "next_update",
                                !["flush"].pos = @ + 1,
                                !["flush"].sheet_name = sheet_name,
                                !["flush"].j = 0]
               /\ drive' = [drive EXCEPT ![sheet_name] =
                                Spreadsheet(ensure_sheet_formatting(
                                    OpenWorksheet(drive[sheet_name])))]
    /\ last' = Observed("flush_item", 0, NoUpdate, "none", "none", "none")
    /\ UNCHANGED <<pending_sheet_updates, SLACK_USER_CACHE, now, cache_file>>

\* the next update of the current list and its apply_to_sheet, or the end of
\* the list
FlushNextUpdate(api) ==
    /\ threads["flush"].pc = "next_update"
    /\ LET locals == threads["flush"]
           updates == PendingList(pending_sheet_updates, locals.sheet_name)
       IN IF locals.j >= Len(updates)
          THEN /\ threads' = [threads EXCEPT !["flush"].pc = "next_item"]
               /\ UNCHANGED <<drive, SLACK_USER_CACHE>>
          ELSE LET update == updates[locals.j + 1]
                   done == apply_to_sheet(update,
                                          drive[locals.sheet_name].rows,
                                          SLACK_USER_CACHE, now, api)
               IN /\ threads' = [threads EXCEPT
                        !["flush"].j = @ + 1,
                        !["flush"].passed[locals.sheet_name] =
                            Append(@, update),
                        !["flush"].pc = IF done.raised # "none"
                                        THEN "raised" ELSE "next_update",
                        !["flush"].raised = done.raised]
                  /\ drive' = [drive EXCEPT
                                ![locals.sheet_name].rows = done.rows]
                  /\ SLACK_USER_CACHE' = done.cache
    /\ last' = Observed("flush_update", 0, NoUpdate, "none", "none", "none")
    /\ UNCHANGED <<pending_sheet_updates, now, cache_file>>

\* _pending_sheet_updates.clear()
FlushClear ==
    /\ threads["flush"].pc = "clear"
    /\ pending_sheet_updates' = <<>>
    /\ threads' = [threads EXCEPT !["flush"].pc = "done"]
    /\ last' = Observed("flush_clear", 0, NoUpdate, "none", "none", "none")
    /\ UNCHANGED <<drive, SLACK_USER_CACHE, now, cache_file>>

\* _teardown returns, or the exception leaves it
FlushEnd ==
    /\ threads["flush"].pc \in {"done", "raised"}
    /\ threads' = [threads EXCEPT !["flush"] = IdleFlush]
    /\ last' = Observed("flush_end", 0, NoUpdate, "none",
                        threads["flush"].raised, "none")
    /\ UNCHANGED <<pending_sheet_updates, drive, SLACK_USER_CACHE, now,
                   cache_file>>

NextRace ==
    \/ \E input \in RaceInputs :
          \* names are first used in ascending order, queues are bounded
          /\ input[1] <= Len(pending_sheet_updates) + 1
          /\ QueueLength(pending_sheet_updates, input[1]) < QueueBound(input[1])
          /\ RegisterUpdate(input[1], input[2])
    \/ FlushBegin
    \/ FlushNextItem
    \/ \E answer \in ApiAnswers :
          /\ \A s \in RaceSheets : Len(drive[s].rows) <= MaxRows
          /\ FlushNextUpdate([user \in Users |-> answer])
    \/ FlushClear
    \/ FlushEnd

SpecRace == InitRace /\ [][NextRace]_vars

---------------------------------------------------------------------------
(* Request-level specification: a webhook request is the call of            *)
(* message_posted and, once it has returned, the app-context teardown        *)
(* callback of google_client.init_app; between requests register_update is   *)
(* called for the other spreadsheets                                         *)

\* what a handler leaves of the program state
Handled(posted, remote, cache) ==
    [posted |-> posted, pending |-> posted.pending, drive |-> remote,
     cache |-> cache]

\* message_posted calling _write_pending_updates itself before it returns,
\* once the queue is past the threshold
handle_message_flushing(event, pending, remote, cache, t, api) ==
    LET posted == message_posted(event, pending, GOOGLE_SPREADSHEET_NAME) IN
    IF Len(posted.pending) > MAX_PENDING_SHEET_WRITES
    THEN LET written == write_pending_updates(posted.pending, remote, cache,
                                              t, api)
         IN [Handled(posted, written.drive, written.cache)
                EXCEPT !.pending = written.pending]
    ELSE Handled(posted, remote, cache)

\* message_posted as a step of the program: it calls
\* register_message_for_update and nothing else of google_client, so the
\* spreadsheets and the user cache are what they were when it returns
handle_message(event, pending, remote, cache, t, api) ==
    Handled(message_posted(event, pending, GOOGLE_SPREADSHEET_NAME),
            remote, cache)

\* the events of the requests: those with a client_msg_id whose nested
\* message, if they have one, is complete
RequestEvents ==
    {event \in Events :
        /\ "client_msg_id" \in DOMAIN event
        /\ "message" \in DOMAIN event => "edited" \in DOMAIN event["message"]}

\* the handler of a request runs: no request is between its handler and its
\* teardown
RequestHandler(event, api) ==
    /\ last.op # "message_posted"
    /\ LET handled == handle_message(event, pending_sheet_updates, drive,
                                     SLACK_USER_CACHE, now, api)
       IN /\ pending_sheet_updates' = handled.pending
          /\ drive' = handled.drive
          /\ SLACK_USER_CACHE' = handled.cache
          /\ last' = ObservedEvent(event, handled.posted)
    /\ UNCHANGED <<now, cache_file, threads>>

\* the handler has returned and the app context is torn down
RequestTeardown(api) ==
    /\ last.op = "message_posted"
    /\ Teardown(api)

\* register_update called outside a request, for another spreadsheet
OtherRegisterUpdate(sheet_name, update) ==
    /\ last.op # "message_posted"
    /\ RegisterUpdate(sheet_name, update)

NextRequest ==
    \/ \E event \in RequestEvents :
          \* the queue is bounded
          /\ QueueLength(pending_sheet_updates, GOOGLE_SPREADSHEET_NAME)
                < MaxQueue
          /\ RequestHandler(event, [user \in Users |-> "ok"])
    \/ \E answer \in ApiAnswers :
          \* worksheets are bounded
          /\ \A s \in SheetNames : Len(drive[s].rows) <= MaxRows
          /\ RequestTeardown([user \in Users |-> answer])
    \/ \E input \in RegisterInputs :
          \* names are first used in ascending order, queues are bounded
          /\ input[1] \notin VariedSheets
          /\ input[1] <= Len(pending_sheet_updates) + 1
          /\ QueueLength(pending_sheet_updates, input[1]) < QueueBound(input[1])
          /\ OtherRegisterUpdate(input[1], input[2])

SpecRequest == InitCache /\ [][NextRequest]_vars

---------------------------------------------------------------------------
(* gspread_utils, the timestamp-keyed variant: _message and _message_edit   *)
(* called on a worksheet of six columns that has its header row              *)

\* gspread_utils._col_headers
col_headers ==
    <<"Username", "Message", "Timestamp Converted", "User ID", "Timestamp",
      "Edited Timestamp">>

\* gspread_utils._headers_dict: the column of a header, counted from 1
headers_dict ==
    [name \in {col_headers[i] : i \in 1..Len(col_headers)} |->
        CHOOSE i \in 1..Len(col_headers) : col_headers[i] = name]

\* a list of cell values laid out from column A of a row of the worksheet
WideRow(values) ==
    [c \in 1..Len(col_headers) |-> IF c <= Len(values) THEN values[c] ELSE ""]

\* time.strftime('%Y-%m-%d %H:%M:%S', time.localtime(int(float(ts))))
strftime_localtime(ts) ==
    CASE ts = "1610000000.000100" -> "2021-01-07 01:13:20"
      [] ts = "1610000100.0"      -> "2021-01-07 01:15:00"
      [] OTHER                    -> "1970-01-01 00:00:00"

\* a cell of the worksheet
Cell(row, col) == [row |-> row, col |-> col]

\* sheet.findall(query): the cells whose value is query
findall(rows, query) ==
    {cell \in {Cell(r, c) : r \in 1..Len(rows), c \in 1..Len(col_headers)} :
        rows[cell.row][cell.col] = query}

\* sheet.update_cell(row, col, value)
update_cell(rows, row, col, value) == [rows EXCEPT ![row][col] = value]

\* sheet.insert_row(values, index)
insert_row(rows, values, index) ==
    IF index <= Len(rows) + 1
    THEN SubSeq(rows, 1, index - 1) \o <<WideRow(values)>>
            \o SubSeq(rows, index, Len(rows))
    ELSE rows \o [i \in 1..(index - 1 - Len(rows)) |-> WideRow(<<>>)]
            \o <<WideRow(values)>>

\* what a helper of gspread_utils did: the worksheet afterwards and what was
\* raised
Helped(rows, raised) == [rows |-> rows, raised |-> raised]

\* the cells of the Timestamp column among cells
valid_cells_of(cells) == {cell \in cells : cell.col = headers_dict["Timestamp"]}

\* the branches of _message_edit on len(valid_cells); the module does not
\* import logging, so that each logging call raises NameError
EditCells(msg, rows, valid_cells) ==
    IF Cardinality(valid_cells) = 1
    THEN Helped(update_cell(
                    update_cell(rows, (CHOOSE cell \in valid_cells : TRUE).row,
                                headers_dict["Message"], msg.message.text),
                    (CHOOSE cell \in valid_cells : TRUE).row,
                    headers_dict["Edited Timestamp"], msg.message.edited.ts),
                "NameError")
    ELSE Helped(rows, "NameError")

\* _message_edit with sheet.find in the place of sheet.findall: the first of
\* the cells, rows before columns, and no other
message_edit_find(msg, rows) ==
    IF /\ HasPath(msg, <<"message", "ts">>)
       /\ HasPath(msg, <<"message", "edited", "ts">>)
       /\ HasPath(msg, <<"message", "text">>)
    THEN EditCells(msg, rows,
            valid_cells_of(
                {cell \in findall(rows, msg.message.ts) :
                    \A other \in findall(rows, msg.message.ts) :
                        \/ cell.row < other.row
                        \/ cell.row = other.row /\ cell.col <= other.col}))
    ELSE Helped(rows, "KeyError")

\* _message_edit(msg, sheet)
message_edit(msg, rows) ==
    IF /\ HasPath(msg, <<"message", "ts">>)
       /\ HasPath(msg, <<"message", "edited", "ts">>)
       /\ HasPath(msg, <<"message", "text">>)
    THEN EditCells(msg, rows, valid_cells_of(findall(rows, msg.message.ts)))
    ELSE Helped(rows, "KeyError")

\* _message(msg, sheet): the row goes in below the header row, and the
\* logging call after it raises NameError
message_insert(msg, rows) ==
    Helped(insert_row(rows,
                      <<msg.user, msg.text, strftime_localtime(msg.ts),
                        msg.user, msg.ts>>,
                      2),
           "NameError")

\* the plain messages handed to _message: the text of one is a ts string
PlainMessages ==
    {[type |-> "message", channel |-> "C1", user |-> "U1", text |-> text,
      ts |-> ts] : text \in {"hi", T1}, ts \in {T1, T2}}

\* the message_changed events handed to _message_edit, one of them without
\* the edited object
EditEvents ==
    {[type |-> "message", subtype |-> "message_changed", channel |-> "C1",
      message |-> [ts |-> ts, text |-> "hi there", edited |-> [ts |-> T2]]] :
        ts \in {T1, T2}}
    \cup {[type |-> "message", subtype |-> "message_changed",
           channel |-> "C1", message |-> [ts |-> T1, text |-> "hi there"]]}

ObservedHelper(op, msg, helped) ==
    [op |-> op, msg |-> msg, raised |-> helped.raised]

InitTimestampKeyed ==
    /\ pending_sheet_updates = <<>>
    /\ drive = [s \in SheetNames |->
                  IF s = GOOGLE_SPREADSHEET_NAME
                  THEN Spreadsheet(<<WideRow(col_headers)>>)
                  ELSE Spreadsheet(<<HeaderRow>>)]
    /\ SLACK_USER_CACHE = EmptyCache
    /\ now = 0
    /\ cache_file = NoFile
    /\ threads = NoThreads
    /\ last = Observed("init", 0, NoUpdate, "none", "none", "none")

CallMessage(s, msg) ==
    /\ Len(drive[s].rows) < MaxRows
    /\ drive' = [drive EXCEPT ![s].rows = message_insert(msg, @).rows]
    /\ last' = ObservedHelper("message", msg,
                              message_insert(msg, drive[s].rows))
    /\ UNCHANGED <<pending_sheet_updates, SLACK_USER_CACHE, now, cache_file,
                   threads>>

CallMessageEdit(s, msg) ==
    /\ drive' = [drive EXCEPT ![s].rows = message_edit(msg, @).rows]
    /\ last' = ObservedHelper("message_edit", msg,
                              message_edit(msg, drive[s].rows))
    /\ UNCHANGED <<pending_sheet_updates, SLACK_USER_CACHE, now, cache_file,
                   threads>>

NextTimestampKeyed ==
    \/ \E msg \in PlainMessages : CallMessage(GOOGLE_SPREADSHEET_NAME, msg)
    \/ \E msg \in EditEvents : CallMessageEdit(GOOGLE_SPREADSHEET_NAME, msg)

SpecTimestampKeyed == InitTimestampKeyed /\ [][NextTimestampKeyed]_vars

---------------------------------------------------------------------------
(* Properties of the worksheet-level calls *)

TestRows == drive[GOOGLE_SPREADSHEET_NAME].rows

\* the rows whose message-id column holds message_id
IdMatches(rows, message_id) ==
    {r \in 1..Len(rows) : rows[r][ColumnHeaders["MessageId"]] = message_id}

Applied(kind) ==
    /\ last.op = "apply_to_sheet"
    /\ last.update.kind = kind

\* rows with row r taken out, the others in their order
RowRemoved(before, after, r) ==
    /\ Len(after) = Len(before) - 1
    /\ \A i \in 1..Len(after) :
          after[i] = IF i < r THEN before[i] ELSE before[i + 1]

\* C3: after _ensure_sheet_formatting returns, row 1 of the worksheet is the
\* canonical header, whatever the worksheet held before, and a New update
\* applied next lands in row 2 directly below that header.
C3_HeaderAfterNormalization ==
    [][ /\ last'.op = "ensure_sheet_formatting"
            => RowValues(TestRows', 1) = ColumnHeaderNames
        /\ (last.op = "ensure_sheet_formatting" /\ Applied("New")'
                /\ last'.raised = "none")
            => /\ RowValues(TestRows', 1) = ColumnHeaderNames
               /\ Len(TestRows') >= 2
               /\ TestRows'[2][1] = last'.update.message_id ]_vars

\* C4: an Edit applied to a worksheet in which exactly one row holds its
\* message_id in the message-id column returns without raising and overwrites
\* the Message and LastEdited cells of that row, and nothing else.
C4_EditUniqueMatch ==
    [][ (Applied("Edit")'
            /\ Cardinality(IdMatches(TestRows, last'.update.message_id)) = 1)
        => LET r == CHOOSE x \in IdMatches(TestRows, last'.update.message_id) : TRUE
           IN /\ last'.raised = "none"
              /\ TestRows' =
                   [TestRows EXCEPT
                      ![r][ColumnHeaders["Message"]] = last'.update.message,
                      ![r][ColumnHeaders["LastEdited"]] =
                          IsoFormat(last'.update.edit_timestamp)] ]_vars

\* C5: an Edit whose message_id is held by no row, or by more than one row,
\* of the message-id column changes no cell, is skipped with a logged message
\* and does not raise, so that the rest of the batch is processed.
C5_EditNoOrAmbiguousMatch ==
    [][ (Applied("Edit")'
            /\ Cardinality(IdMatches(TestRows, last'.update.message_id)) # 1)
        => /\ TestRows' = TestRows
           /\ last'.raised = "none"
           /\ last'.logged \in {"warning", "error"} ]_vars

\* C6: a Delete removes exactly the row holding its message_id in the
\* message-id column when there is exactly one such row, the other rows keeping
\* content and order; with no such row or several it changes nothing.
C6_DeleteMatchCardinality ==
    [][ Applied("Delete")'
        => LET matches == IdMatches(TestRows, last'.update.message_id) IN
           IF Cardinality(matches) = 1
           THEN RowRemoved(TestRows, TestRows', CHOOSE x \in matches : TRUE)
           ELSE TestRows' = TestRows ]_vars

\* C7: a New update that is applied to a worksheet with a row 1, its display
\* name resolved, inserts exactly one row, at position 2, holding message_id,
\* the resolved display name, the message text and the timestamp; row 1 is
\* untouched and every row from 2 on moves down by one, unchanged.
C7_NewInsertsAtRowTwo ==
    [][ (Applied("New")' /\ last'.raised = "none" /\ Len(TestRows) >= 1)
        => LET update == last'.update IN
           /\ Len(TestRows') = Len(TestRows) + 1
           /\ TestRows'[1] = TestRows[1]
           /\ SubSeq(TestRows'[2], 1, 4) =
                <<update.message_id,
                  SLACK_USER_CACHE'[update.user_id].real_name,
                  update.message,
                  IsoFormat(update.timestamp)>>
           /\ \A i \in 2..Len(TestRows) : TestRows'[i + 1] = TestRows[i] ]_vars

\* C7's case: a New update was applied below a header, above an older row
C7_Witness ==
    /\ Applied("New")
    /\ last.raised = "none"
    /\ Len(TestRows) >= 3
    /\ TestRows[1] = HeaderRow
    /\ TestRows[2][1] = last.update.message_id
    /\ TestRows[3][1] # ""

\* C8: when the display name of a New update's user cannot be resolved (the
\* user is not cached, or expired, and the remote lookup fails or is rate
\* limited), the update is applied all the same: it does not raise, and its
\* row goes to position 2 with the raw user_id in the Username cell.
C8_DisplayNameFallback ==
    [][ (/\ Applied("New")'
         /\ last'.answer # "ok"
         /\ \/ last'.update.user_id \notin DOMAIN SLACK_USER_CACHE
            \/ entry_expired(SLACK_USER_CACHE[last'.update.user_id], now))
        => LET update == last'.update IN
           /\ last'.raised = "none"
           /\ Len(TestRows') >= 2
           /\ TestRows'[2] = PadRow(<<update.message_id, update.user_id,
                                      update.message,
                                      IsoFormat(update.timestamp)>>) ]_vars

---------------------------------------------------------------------------
(* Properties of the queue and its flush *)

\* the number of queued updates, summed over all spreadsheets
RECURSIVE TotalPending(_)
TotalPending(pending) ==
    IF pending = <<>> THEN 0
    ELSE Len(Head(pending).updates) + TotalPending(Tail(pending))

\* C1: a teardown checkpoint flushes exactly when the number of queued
\* updates, summed over all spreadsheets, exceeds MAX_PENDING_SHEET_WRITES:
\* no flush with at most 10 queued updates, a flush of every spreadsheet
\* with pending updates once there are 11.
C1_FlushThreshold ==
    [][ last'.op = "teardown"
        => /\ last'.flushed
                <=> TotalPending(pending_sheet_updates)
                        > MAX_PENDING_SHEET_WRITES
           /\ last'.flushed
                => {last'.outcomes[i].sheet_name :
                        i \in 1..Len(last'.outcomes)}
                    = PendingNames(pending_sheet_updates) ]_vars

\* C2: the flush at a teardown checkpoint is unconditional: after every
\* teardown no update is left in the queue unless the flush failed.
C2_TeardownFlushesAll ==
    last.op = "teardown"
        => (pending_sheet_updates = <<>> \/ last.raised # "none")

\* C9: in a flush, every update queued for a spreadsheet the flush works on
\* is attempted, also when an update queued before it has failed.
C9_FailureContained ==
    (last.op = "teardown" /\ last.flushed)
        => \A i \in 1..Len(last.outcomes) :
              last.outcomes[i].raised \notin {"none", "SpreadsheetNotFound"}
                => last.outcomes[i].attempted = last.outcomes[i].queued

\* C10: after a flush, a spreadsheet whose queued updates were all applied
\* has an empty list, also when another spreadsheet of the cycle failed, and
\* a spreadsheet the flush failed for keeps its list.
C10_FlushAtomicPerSheet ==
    (last.op = "teardown" /\ last.flushed)
        => \A i \in 1..Len(last.outcomes) :
              LET outcome == last.outcomes[i] IN
              IF outcome.raised = "none"
              THEN outcome.sheet_name
                        \notin PendingNames(pending_sheet_updates)
              ELSE QueueLength(pending_sheet_updates, outcome.sheet_name)
                        = outcome.queued

\* C11: when opening a spreadsheet fails during a flush, the error is logged
\* and re-raised and the batch queued for that spreadsheet is dropped: after
\* the failed flush the spreadsheet has no pending list any more.
C11_FailedOpenDropsBatch ==
    (last.op = "teardown" /\ last.flushed
            /\ last.raised = "SpreadsheetNotFound")
        => /\ last.logged = "exception"
           /\ \A i \in 1..Len(last.outcomes) :
                 last.outcomes[i].raised = "SpreadsheetNotFound"
                    => last.outcomes[i].sheet_name
                            \notin PendingNames(pending_sheet_updates)

---------------------------------------------------------------------------
(* Properties of the user cache *)

\* the cache with the entry of user_id refreshed at time t and no other change
Refreshed(before, after, user_id, t) ==
    /\ DOMAIN after = DOMAIN before \cup {user_id}
    /\ after[user_id].id = user_id
    /\ after[user_id].last_refreshed = t
    /\ \A k \in DOMAIN before \ {user_id} : after[k] = before[k]

\* C12: a lookup of a user whose entry is older than 7 days makes exactly one
\* remote fetch and, the fetch succeeding, replaces the entry by one refreshed
\* now; a lookup of a user whose entry is within the TTL makes no fetch and
\* leaves the cache unchanged; a lookup of an absent user makes exactly one
\* fetch and, the fetch succeeding, adds the entry.
C12_FetchCountByTTL ==
    [][ last'.op = "get_user_display"
        => LET user_id == last'.user_id IN
           IF user_id \notin DOMAIN SLACK_USER_CACHE
                \/ now - SLACK_USER_CACHE[user_id].last_refreshed > 7
           THEN /\ last'.fetches = 1
                /\ last'.answer = "ok"
                      => Refreshed(SLACK_USER_CACHE, SLACK_USER_CACHE',
                                   user_id, now)
           ELSE /\ last'.fetches = 0
                /\ SLACK_USER_CACHE' = SLACK_USER_CACHE ]_vars

\* C12's cases: an entry older than the TTL was looked up and replaced, and
\* the other user's entry, exactly 7 days old, is still there
C12_Witness ==
    /\ last.op = "get_user_display"
    /\ last.had /\ last.age > CACHE_TIME_TO_LIVE
    /\ last.fetches = 1
    /\ SLACK_USER_CACHE[last.user_id].last_refreshed = now
    /\ \E other \in DOMAIN SLACK_USER_CACHE :
          now - SLACK_USER_CACHE[other].last_refreshed = CACHE_TIME_TO_LIVE

\* the users the cache file holds an unexpired entry of
PersistedUnexpired(file, t) ==
    IF file.exists
    THEN {k \in DOMAIN file.users :
            t - file.users[k].last_refreshed \div 86400 <= CACHE_TIME_TO_LIVE}
    ELSE {}

---------------------------------------------------------------------------
(* Properties of the webhook handler *)

\* the updates queued for the configured spreadsheet
Queue(pending) ==
    IF pending = <<>> THEN <<>> ELSE pending[1].updates

\* the variant the dispatch policy gives a subtype
Variant(subtype) ==
    CASE subtype = "message_changed" -> "Edit"
      [] subtype = "message_deleted" -> "Delete"
      [] subtype = "message_replied" -> "Reply"
      [] subtype = "None"            -> "New"

\* an event of the inbound event shape: type message, a subtype of the
\* closed set or none, the top-level fields and, for message_changed, the
\* nested message with its edited.ts
InboundShape(event) ==
    /\ event["type"] = "message"
    /\ dict_get(event, "subtype") \in BuilderSubtypes
    /\ {"channel", "ts", "text", "user", "client_msg_id"} \subseteq DOMAIN event
    /\ dict_get(event, "subtype") = "message_changed"
          => /\ "message" \in DOMAIN event
             /\ "edited" \in DOMAIN event["message"]

\* C15: an event of type message with the fields of the inbound event shape
\* adds exactly one update to the list of the configured spreadsheet, of the
\* variant its subtype selects; a New update has the top-level client_msg_id
\* as message_id, an Edit update that of the nested message.
C15_SubtypeDispatch ==
    [][ (/\ last'.op = "message_posted"
         /\ last'.event["channel"] \in SLACK_WATCHED_CHANNELS
         /\ InboundShape(last'.event))
        => LET event == last'.event
               before == Queue(pending_sheet_updates)
               after == Queue(pending_sheet_updates')
           IN /\ PendingNames(pending_sheet_updates')
                    = {GOOGLE_SPREADSHEET_NAME}
              /\ Len(after) = Len(before) + 1
              /\ SubSeq(after, 1, Len(before)) = before
              /\ after[Len(after)].kind
                    = Variant(dict_get(event, "subtype"))
              /\ after[Len(after)].kind = "New"
                    => after[Len(after)].message_id = event["client_msg_id"]
              /\ after[Len(after)].kind = "Edit"
                    => after[Len(after)].message_id
                            = event["message"]["client_msg_id"] ]_vars

\* the fields the builder of a subtype reads, as paths into the event
RequiredFields(subtype) ==
    CASE subtype = "None" ->
            {<<"client_msg_id">>, <<"text">>, <<"ts">>, <<"user">>}
      [] subtype = "message_changed" ->
            {<<"message", "client_msg_id">>, <<"message", "text">>,
             <<"message", "ts">>, <<"message", "edited", "ts">>}
      [] OTHER ->
            {<<"message", "client_msg_id">>, <<"message", "text">>,
             <<"message", "ts">>}

\* an event of another type, of a subtype outside the closed set, or lacking
\* a field its subtype requires
RejectedEvent(event) ==
    \/ event["type"] # "message"
    \/ dict_get(event, "subtype") \notin BuilderSubtypes
    \/ \E path \in RequiredFields(dict_get(event, "subtype")) :
          ~HasPath(event, path)

\* C16: a rejected event on a watched channel fails inside
\* register_message_for_update, leaves the queue as it was, and the handler
\* returns its response without raising.
C16_RejectedEventsLeaveQueue ==
    [][ (/\ last'.op = "message_posted"
         /\ last'.event["channel"] \in SLACK_WATCHED_CHANNELS
         /\ RejectedEvent(last'.event))
        => /\ pending_sheet_updates' = pending_sheet_updates
           /\ last'.caught # "none"
           /\ last'.raised = "none"
           /\ last'.returned = "Response" ]_vars

\* C16's case: with an update queued, a message_changed event whose nested
\* message has no edited object was rejected
C16_Witness ==
    /\ last.op = "message_posted"
    /\ last.event["channel"] \in SLACK_WATCHED_CHANNELS
    /\ last.event["type"] = "message"
    /\ dict_get(last.event, "subtype") = "message_changed"
    /\ "message" \in DOMAIN last.event
    /\ "edited" \notin DOMAIN last.event["message"]
    /\ last.caught = "KeyError"
    /\ Len(Queue(pending_sheet_updates)) = 1

\* C17: an event on a channel outside SLACK_WATCHED_CHANNELS leaves the queue
\* and the user cache as they were and reaches no builder; the queue changes
\* only on an event of a watched channel.
C17_ChannelAllowList ==
    [][ last'.op = "message_posted"
        => /\ last'.event["channel"] \notin SLACK_WATCHED_CHANNELS
                => /\ pending_sheet_updates' = pending_sheet_updates
                   /\ SLACK_USER_CACHE' = SLACK_USER_CACHE
                   /\ ~last'.builder_called
           /\ pending_sheet_updates' # pending_sheet_updates
                => last'.event["channel"] \in SLACK_WATCHED_CHANNELS ]_vars

\* C17's case: an event that would be queued on a watched channel arrived on
\* another channel
C17_Witness ==
    /\ last.op = "message_posted"
    /\ last.event["channel"] \notin SLACK_WATCHED_CHANNELS
    /\ InboundShape(last.event)
    /\ ~RejectedEvent(last.event)
    /\ last.returned = "None"
    /\ Len(Queue(pending_sheet_updates)) = 1

---------------------------------------------------------------------------
(* Properties of the order of the queue *)

\* the list queued for sheet_name, empty when it is no key
Pending(pending, sheet_name) ==
    IF sheet_name \in PendingNames(pending)
    THEN pending[CHOOSE i \in 1..Len(pending) :
                    pending[i].sheet_name = sheet_name].updates
    ELSE <<>>

\* C18: register_update appends one update to the list of one spreadsheet
\* and leaves the elements that list had and the lists of the other
\* spreadsheets as they were; a flush applies the updates of a spreadsheet in
\* the order of its list, from the first on, all of them unless one raises.
C18_ArrivalOrderPreserved ==
    [][ /\ last'.op = "register_update"
            => \E s \in SheetNames :
                  /\ Len(Pending(pending_sheet_updates', s))
                        = Len(Pending(pending_sheet_updates, s)) + 1
                  /\ SubSeq(Pending(pending_sheet_updates', s), 1,
                            Len(Pending(pending_sheet_updates, s)))
                        = Pending(pending_sheet_updates, s)
                  /\ \A other \in SheetNames \ {s} :
                        Pending(pending_sheet_updates', other)
                            = Pending(pending_sheet_updates, other)
        /\ (last'.op = "teardown" /\ last'.flushed)
            => \A i \in 1..Len(last'.outcomes) :
                  LET outcome == last'.outcomes[i]
                      queued == Pending(pending_sheet_updates,
                                        outcome.sheet_name)
                  IN /\ Len(outcome.applied) <= Len(queued)
                     /\ outcome.applied
                            = SubSeq(queued, 1, Len(outcome.applied))
                     /\ outcome.raised = "none"
                            => outcome.applied = queued ]_vars

\* C18's case: a flush has applied two different updates of one spreadsheet
C18_Witness ==
    /\ last.op = "teardown" /\ last.flushed
    /\ \E i \in 1..Len(last.outcomes) :
          /\ Len(last.outcomes[i].applied) = 2
          /\ last.outcomes[i].applied[1] # last.outcomes[i].applied[2]
          /\ last.outcomes[i].raised = "none"

---------------------------------------------------------------------------
(* Properties of concurrent requests *)

\* C19: an update is removed from the queue only after it was passed to the
\* synchronizer: every update the clear() of a flush removes was applied by
\* that flush, whenever the requests that enqueue ran in between; an update
\* enqueued while the flush is in progress is applied by it or queued after it.
C19_NoLostUpdate ==
    [][ (threads["flush"].pc = "clear" /\ threads'["flush"].pc = "done")
        => \A s \in RaceSheets :
              PendingList(pending_sheet_updates, s)
                    = threads["flush"].passed[s] ]_vars

\* C20: of two calls of get_user_display in progress at once for the same
\* user id, absent from the cache or expired, at most one has issued a
\* remote fetch.
C20_NoDuplicateFetch ==
    \A a, b \in LookupThreads :
        (/\ a # b
         /\ threads[a].pc # "idle" /\ threads[b].pc # "idle"
         /\ threads[a].user_id = threads[b].user_id)
        => threads[a].fetches + threads[b].fetches <= 1

---------------------------------------------------------------------------
(* Properties of repeated normalisation and repeated flushes *)

\* C22: _ensure_sheet_formatting applied to a worksheet whose row 1 is the
\* canonical header and which has at least one data row leaves the worksheet
\* as it is, the first time and every time after.
C22_NormalizationIdempotent ==
    [][ (/\ last'.op = "ensure_sheet_formatting"
         /\ RowValues(TestRows, 1) = ColumnHeaderNames
         /\ Len(TestRows) >= 2)
        => TestRows' = TestRows ]_vars

---------------------------------------------------------------------------
(* Properties of a failed remote fetch *)

\* C26: when get_user_display has to fetch (the user is absent from the cache
\* or the entry is older than the TTL) and the Slack Web API answers with a
\* failure or a rate limit, a RuntimeError is raised and the cache is exactly
\* what it was before the call; the next lookup of the same user, made right
\* after, fetches again.
C26_FailedFetchLeavesCache ==
    [][ last'.op = "get_user_display"
        => LET user_id == last'.user_id IN
           /\ (/\ \/ user_id \notin DOMAIN SLACK_USER_CACHE
                  \/ now - SLACK_USER_CACHE[user_id].last_refreshed
                        > CACHE_TIME_TO_LIVE
               /\ last'.answer \in {"failed", "ratelimited"})
              => /\ last'.raised = "RuntimeError"
                 /\ last'.fetches = 1
                 /\ SLACK_USER_CACHE' = SLACK_USER_CACHE
           /\ (/\ last.op = "get_user_display"
               /\ last.raised = "RuntimeError"
               /\ last.user_id = user_id)
              => last'.fetches = 1 ]_vars

\* C26's case: the lookup of a user whose entry had expired failed, and the
\* expired entry is still in the cache, as old as it was, with no entry added
\* for the other user
C26_Witness ==
    /\ last.op = "get_user_display"
    /\ last.raised = "RuntimeError"
    /\ last.had /\ last.age > CACHE_TIME_TO_LIVE
    /\ DOMAIN SLACK_USER_CACHE = {last.user_id}
    /\ now - SLACK_USER_CACHE[last.user_id].last_refreshed = last.age

---------------------------------------------------------------------------
(* Properties of the worksheet over a sequence of flushes *)

\* the message ids the rows of a worksheet carry
MessageIdsIn(rows) ==
    {rows[r][ColumnHeaders["MessageId"]] : r \in 1..Len(rows)}
        \ {"", ColumnHeaderNames[ColumnHeaders["MessageId"]]}

\* the flush observed in flush_seen applied a Delete update for message_id to
\* the configured spreadsheet
DeleteApplied(flush_seen, message_id) ==
    /\ flush_seen.op = "teardown" /\ flush_seen.flushed
    /\ \E i \in 1..Len(flush_seen.outcomes) :
          /\ flush_seen.outcomes[i].sheet_name = GOOGLE_SPREADSHEET_NAME
          /\ \E j \in 1..Len(flush_seen.outcomes[i].applied) :
                /\ flush_seen.outcomes[i].applied[j].kind = "Delete"
                /\ flush_seen.outcomes[i].applied[j].message_id = message_id

\* C24: a message row of the worksheet stays in the worksheet, with its
\* message id, over every step, a flush with its worksheet resolution and
\* header normalisation included, unless the step is a flush that applied a
\* Delete update for that message id.
C24_MessageRowsSurviveFlushes ==
    [][ \A message_id \in MessageIdsIn(TestRows) :
            \/ message_id \in MessageIdsIn(TestRows')
            \/ DeleteApplied(last', message_id) ]_vars

\* the number of updates of a spreadsheet a flush applied without an exception
AppliedCount(outcome) ==
    IF outcome.raised \in {"none", "SpreadsheetNotFound"}
    THEN Len(outcome.applied)
    ELSE Len(outcome.applied) - 1

\* C25: every enqueued update is applied at most once: of two flushes with no
\* enqueue in between, the second applies to a spreadsheet no update the first
\* has already applied, so that the updates applied by the two together are no
\* more than the spreadsheet's list holds.
C25_AtMostOnceApplication ==
    [][ (/\ last.op = "teardown" /\ last.flushed
         /\ last'.op = "teardown" /\ last'.flushed)
        => \A i \in 1..Len(last.outcomes), j \in 1..Len(last'.outcomes) :
              last.outcomes[i].sheet_name = last'.outcomes[j].sheet_name
                => AppliedCount(last.outcomes[i])
                        + Len(last'.outcomes[j].applied)
                    <= last'.outcomes[j].queued ]_vars

---------------------------------------------------------------------------
(* Properties of the timestamp-keyed variant *)

\* the rows of a worksheet that carry ts in the Timestamp column
RowsWithTimestamp(rows, ts) ==
    {r \in 1..Len(rows) : rows[r][headers_dict["Timestamp"]] = ts}

\* C23: _message_edit called with an edit event changes no cell when two (or
\* more) rows carry the event's ts in the Timestamp column, and none when no
\* row does; when exactly one cell of the Timestamp column matches, the
\* Message and the Edited Timestamp cells of that row get the event's text
\* and edit timestamp, and no other cell changes.
C23_CoincidingTimestamps ==
    [][ last'.op = "message_edit"
        => LET msg == last'.msg
               matching == RowsWithTimestamp(TestRows, msg.message.ts)
           IN IF Cardinality(matching) = 1
                    /\ "edited" \in DOMAIN msg.message
              THEN \E r \in matching :
                      TestRows' =
                        [TestRows EXCEPT
                            ![r][headers_dict["Message"]] = msg.message.text,
                            ![r][headers_dict["Edited Timestamp"]] =
                                msg.message.edited.ts]
              ELSE TestRows' = TestRows ]_vars

\* C23's case: an edit event was processed whose ts two rows carry in the
\* Timestamp column, and neither row has an edited message or an edit
\* timestamp
C23_Witness ==
    /\ last.op = "message_edit"
    /\ "edited" \in DOMAIN last.msg.message
    /\ Cardinality(RowsWithTimestamp(TestRows, last.msg.message.ts)) = 2
    /\ \A r \in RowsWithTimestamp(TestRows, last.msg.message.ts) :
          /\ TestRows[r][headers_dict["Message"]] # last.msg.message.text
          /\ TestRows[r][headers_dict["Edited Timestamp"]] = ""

---------------------------------------------------------------------------
(* Properties of a webhook request *)

\* C21: the call of message_posted enqueues at most one update, takes nothing
\* from the queue, touches no spreadsheet and no cache entry, and returns
\* without raising, with the Response for an event of a watched channel, also
\* when building or enqueuing the update raised; a spreadsheet changes only
\* in the teardown that follows the handler's return.
C21_AcknowledgeBeforeFlush ==
    [][ /\ last'.op = "message_posted"
            => /\ drive' = drive
               /\ SLACK_USER_CACHE' = SLACK_USER_CACHE
               /\ last'.raised = "none"
               /\ last'.event["channel"] \in SLACK_WATCHED_CHANNELS
                    => last'.returned = "Response"
               /\ TotalPending(pending_sheet_updates')
                    \in {TotalPending(pending_sheet_updates),
                         TotalPending(pending_sheet_updates) + 1}
               /\ \A s \in SheetNames :
                     SubSeq(Pending(pending_sheet_updates', s), 1,
                            Len(Pending(pending_sheet_updates, s)))
                        = Pending(pending_sheet_updates, s)
        /\ (drive' # drive \/ (last'.op = "teardown" /\ last'.flushed))
            => /\ last'.op = "teardown"
               /\ last.op = "message_posted"
               /\ last.raised = "none" ]_vars

\* C21's case: the handler returned after it had enqueued the New update of
\* an event, and the teardown after it flushed: the event's row is in the
\* worksheet
C21_Witness ==
    /\ last.op = "teardown" /\ last.flushed
    /\ \E i \in 1..Len(last.outcomes) :
          /\ last.outcomes[i].sheet_name = GOOGLE_SPREADSHEET_NAME
          /\ \E j \in 1..Len(last.outcomes[i].applied) :
                /\ last.outcomes[i].applied[j].kind = "New"
                /\ last.outcomes[i].applied[j].message_id = "m2"
    /\ IdMatches(TestRows, "m2") # {}

===========================================================================
